---- MODULE Spec2Model ----
(***************************************************************************)
(* The recursive research orchestrator of deep_search.py                   *)
(* (DeepSearch.deep_research and the collaborators it calls).              *)
(*                                                                         *)
(* An invocation of deep_research is a frame, named by its path in the     *)
(* call tree: the root is <<>>, and the invocation started by branch i of  *)
(* frame p is Append(p, i).  A branch (one process_query execution) has    *)
(* the same name as the invocation it may start.                           *)
(***************************************************************************)
EXTENDS Integers, Sequences, FiniteSets, TLC

VARIABLES
    frames,       \* path -> the locals of one deep_research invocation
    branches,     \* path -> the locals of one process_query execution
    on_progress,  \* whether the root was given a callback (None otherwise)
    lastCall,     \* the record most recently handed to on_progress
    evaluations,  \* how many process_query executions have started
    failed,       \* whether an exception was raised anywhere so far
    found,        \* what the searches and the Result Processor have returned
    oracle,       \* the collaborators' answers, when they are fixed in advance
    unit          \* one call of research, write_final_report or trim_prompt

vars == <<frames, branches, on_progress, lastCall, evaluations, failed, found,
          oracle, unit>>

\* What no step of deep_research changes.
setting == <<on_progress, oracle, unit>>

----------------------------------------------------------------------------
(* Bounds of the model *)

MaxBreadth == 3
MaxDepth == 2
MaxLLMQueries == 3
MaxSize == 4
MaxText == 4
MaxChars == 3
MaxUrls == 2
MaxLLMFollowUps == 3
WideBreadth == 4

(* Program constants *)

CONCURRENCY_LIMIT == 2
SearchLimit == 5
NumLearnings == 3

----------------------------------------------------------------------------
(* Values *)

Absent == "<absent>"
QueryNames == <<"A", "B", "C", "D", "E", "F">>
\* What the web and the LLM hold about a query: one page and one fact.
UrlOf(query) == IF query \in {"A", "C", "E"} THEN "u1" ELSE "u2"
LearningOf(query) == IF query \in {"A", "C", "E"} THEN "L1" ELSE "L2"

Max(a, b) == IF a >= b THEN a ELSE b
Min(a, b) == IF a <= b THEN a ELSE b
Range(s) == {s[i] : i \in DOMAIN s}
Take(s, n) == SubSeq(s, 1, Min(n, Len(s)))
HasKey(d, k) == d[k] # Absent
NoDuplicates(s) == \A i, j \in DOMAIN s : i # j => s[i] # s[j]

RECURSIVE SumLists(_)
SumLists(ls) == IF ls = <<>> THEN <<>> ELSE Head(ls) \o SumLists(Tail(ls))

EmptyResult == [learnings |-> <<>>, visitedUrls |-> <<>>]

\* No method is called on its own.
NoUnit == [fn |-> "none"]

----------------------------------------------------------------------------
(* The collaborators' answers, and what the methods make of them *)

MkQuery(i, kind) ==
    [query |-> IF kind = "noQuery" THEN Absent ELSE QueryNames[i],
     researchGoal |-> IF kind = "noGoal" THEN Absent ELSE "goal"]

\* The ways an entry of 'queries' may be malformed. 'researchGoal' is read
\* (line 210) only by a branch that recurses, so an entry without it is drawn
\* only for an invocation whose branches recurse.
Malformed(depth) == IF depth - 1 > 0 THEN {"noGoal", "noQuery"} ELSE {"noQuery"}

\* The lists an LLM may put under 'queries': at most one malformed entry.
LLMQueryLists(depth) ==
    {[i \in 1..n |-> MkQuery(i, IF i = bad THEN kind ELSE "ok")] :
        n \in 0..MaxLLMQueries, bad \in 0..MaxLLMQueries,
        kind \in Malformed(depth)}

GenResponses(depth) ==
    {[kind |-> "raise", queries |-> <<>>],
     [kind |-> "notjson", queries |-> <<>>],
     [kind |-> "wrongshape", queries |-> <<>>]}
    \cup {[kind |-> "json", queries |-> qs] : qs \in LLMQueryLists(depth)}

generate_serp_queries(resp, num_queries) ==
    CASE resp.kind = "raise" -> [raised |-> TRUE, value |-> <<>>]
      [] resp.kind = "wrongshape" -> [raised |-> TRUE, value |-> <<>>]
      [] resp.kind = "notjson" -> [raised |-> FALSE, value |-> <<>>]
      [] OTHER -> [raised |-> FALSE, value |-> Take(resp.queries, num_queries)]

SearchResponses(query) ==
    {[kind |-> "request_exception", urls |-> <<>>],
     [kind |-> "error", urls |-> <<>>],
     [kind |-> "ok", urls |-> <<>>],
     [kind |-> "ok", urls |-> <<UrlOf(query)>>]}

search_web(resp, limit) ==
    CASE resp.kind = "error" -> [raised |-> TRUE, value |-> <<>>]
      [] resp.kind = "request_exception" -> [raised |-> FALSE, value |-> <<>>]
      [] OTHER -> [raised |-> FALSE, value |-> Take(resp.urls, limit)]

\* The follow-up questions an LLM may put under 'followUpQuestions': none,
\* or more than any invocation asks for.
FollowUpNames == <<"F1", "F2", "F3", "F4", "F5">>
LLMFollowUps == Take(FollowUpNames, MaxLLMFollowUps)

ProcResponses(query) ==
    {[kind |-> "raise", learnings |-> <<>>, followUpQuestions |-> <<>>],
     [kind |-> "notjson", learnings |-> <<>>, followUpQuestions |-> <<>>],
     [kind |-> "json", learnings |-> <<LearningOf(query)>>, followUpQuestions |-> <<>>],
     [kind |-> "json", learnings |-> <<LearningOf(query)>>,
      followUpQuestions |-> LLMFollowUps]}

process_serp_result(resp, num_learnings, num_follow_ups) ==
    CASE resp.kind = "raise" ->
            [raised |-> TRUE, learnings |-> <<>>, followUpQuestions |-> <<>>]
      [] resp.kind = "notjson" ->
            [raised |-> FALSE, learnings |-> <<>>, followUpQuestions |-> <<>>]
      [] OTHER ->
            [raised |-> FALSE, learnings |-> Take(resp.learnings, num_learnings),
             followUpQuestions |-> Take(resp.followUpQuestions, num_follow_ups)]

\* on_progress(progress): not called when None; a callback returns or raises.
CallbackOutcomes == IF on_progress THEN {"ok", "raise"} ELSE {"skip"}

\* The collaborators answer as they like: nothing is fixed in advance.
Free == [fixed |-> FALSE]

\* The answers a call gets: any answer, or the one the oracle fixed for the
\* call's arguments (the depth of the invocation, the query searched).
GenAnswers(depth) ==
    IF oracle.fixed THEN {oracle.gen[depth]} ELSE GenResponses(depth)
SearchAnswers(query) ==
    IF oracle.fixed THEN {oracle.search[query]} ELSE SearchResponses(query)
ProcAnswers(query) ==
    IF oracle.fixed THEN {oracle.proc[query]} ELSE ProcResponses(query)
CallbackAnswers ==
    IF oracle.fixed /\ on_progress THEN {oracle.callback} ELSE CallbackOutcomes

----------------------------------------------------------------------------
(* deep_research: the frame *)

NewProgress(breadth, depth) ==
    [currentDepth |-> depth, totalDepth |-> depth,
     currentBreadth |-> breadth, totalBreadth |-> breadth,
     totalQueries |-> 0, completedQueries |-> 0, currentQuery |-> Absent]

NewFrame(breadth, depth, learnings, visited_urls) ==
    [pc |-> "generate", breadth |-> breadth, depth |-> depth,
     learnings |-> learnings, visited_urls |-> visited_urls,
     serp_queries |-> <<>>, progress |-> NewProgress(breadth, depth),
     result |-> EmptyResult]

NewBranch(q) ==
    [pc |-> "queued", serp_query |-> q, new_urls |-> <<>>,
     new_learnings |-> <<>>, completed |-> 0, raisedIn |-> FALSE,
     rp_calls |-> <<>>, num_follow_ups |-> 0, follow_ups |-> <<>>,
     sw_calls |-> <<>>, reports |-> 0, result |-> EmptyResult]

\* Variants of NewDepth: the depth handed on without the decrement, and
\* with two levels taken off at once.
NewDepthSame(depth) == depth
NewDepthTwo(depth) == depth - 2

\* Line 203.
NewDepth(depth) == depth - 1
\* Variants of NewBreadth: the breadth handed on unchanged, and halved
\* without the floor of 1.
NewBreadthSame(breadth) == breadth
NewBreadthNoFloor(breadth) == breadth \div 2

\* Line 204.
NewBreadth(breadth) == Max(1, breadth \div 2)

Parent(b) == SubSeq(b, 1, Len(b) - 1)
Index(b) == b[Len(b)]
BranchesOf(f) == {b \in DOMAIN branches : Len(b) > 0 /\ Parent(b) = f}
Running(b) == branches[b].pc \in {"read", "update", "callback", "recurse"}
RunningOf(f) == {b \in BranchesOf(f) : Running(b)}

\* Variant of NumFollowUps: the default of process_serp_result's parameter.
NumFollowUpsDefault(breadth) == 3

\* Line 198: the number of follow-up questions a branch asks for.
NumFollowUps(breadth) == Max(1, breadth \div 2)

\* What on_progress is handed: the frame's progress record (by reference).
Call(f, progress) == [owner |-> f, rec |-> progress]
NoCall == [owner |-> <<0>>, rec |-> NewProgress(0, 0)]

\* list(set(xs)): the elements of xs once each, in an order the hash decides.
ListOfSet(xs) ==
    LET S == Range(xs)
    IN  {s \in [1..Cardinality(S) -> S] : Range(s) = S}


\* Lines 185-191 and the submissions of executor.map: the Query Generator's
\* answer (or its exception, which leaves the call), the first progress report,
\* and one queued work item per query.
Generate(f) ==
    /\ frames[f].pc = "generate"
    /\ \E resp \in GenAnswers(frames[f].depth) :
         LET r == generate_serp_queries(resp, frames[f].breadth)
             qs == r.value
             keyError == qs # <<>> /\ ~HasKey(qs[1], "query")
             progress == [frames[f].progress EXCEPT
                             !.totalQueries = Len(qs),
                             !.currentQuery = IF qs = <<>> THEN "" ELSE qs[1].query]
         IN  IF r.raised \/ keyError
             THEN /\ frames' = [frames EXCEPT ![f].pc = "raised"]
                  /\ failed' = TRUE
                  /\ UNCHANGED <<branches, lastCall>>
             ELSE \E out \in CallbackAnswers :
                    /\ lastCall' = IF out = "skip" THEN lastCall ELSE Call(f, progress)
                    /\ failed' = (failed \/ out = "raise")
                    /\ frames' = [frames EXCEPT
                          ![f].serp_queries = IF out = "raise" THEN <<>> ELSE qs,
                          ![f].progress = progress,
                          ![f].pc = IF out = "raise" THEN "raised" ELSE "pool"]
                    /\ branches' =
                          IF out = "raise" THEN branches
                          ELSE branches @@
                               [b \in {Append(f, i) : i \in 1..Len(qs)} |->
                                   NewBranch(qs[Index(b)])]
    /\ UNCHANGED <<setting, evaluations, found>>

----------------------------------------------------------------------------
(* process_query: one branch, run by a worker of its frame's pool *)

Finish(b, result, raised) ==
    [branches EXCEPT ![b].pc = "done", ![b].result = result,
                     ![b].raisedIn = raised, ![b].completed = 0]

\* The handler of lines 234-236: its log line reads serp_query['query'].
Handle(b) ==
    IF HasKey(branches[b].serp_query, "query")
    THEN Finish(b, EmptyResult, TRUE)
    ELSE [branches EXCEPT ![b].pc = "escaped", ![b].raisedIn = TRUE]

\* Variant of WorkerFree: a pool that starts every work item at once.
WorkerFreeUnbounded(f) == TRUE

\* A worker of the pool is idle.
WorkerFree(f) == Cardinality(RunningOf(f)) < CONCURRENCY_LIMIT

\* Variant of AllLearnings: one list that every branch of the invocation
\* extends in place, so that a branch finds its elder siblings' learnings in it.
AllLearningsShared(b) ==
    frames[Parent(b)].learnings
        \o SumLists([i \in 1..Index(b) |-> branches[Append(Parent(b), i)].new_learnings])

\* Variant of AllUrls: the page of the query is listed whether or not the
\* search returned it.
AllUrlsWithQuery(b) ==
    frames[Parent(b)].visited_urls \o <<UrlOf(branches[b].serp_query.query)>>

\* Lines 201-202.
AllLearnings(b) == frames[Parent(b)].learnings \o branches[b].new_learnings
AllUrls(b) == frames[Parent(b)].visited_urls \o branches[b].new_urls

\* Variant of ProcessorCalls: no LLM call for a search without results.
ProcessorCallsSkipEmpty(result) == IF result = <<>> THEN <<>> ELSE <<result>>

\* Lines 197-199: the calls of process_serp_result for one query, each with
\* the result list it is given.
ProcessorCalls(result) == <<result>>

\* What the collaborators returned to a branch: the URLs of the search
\* results (line 196) and the learnings of the Result Processor (line 201).
Findings(b, s, p) ==
    LET urls == IF s.raised THEN <<>> ELSE s.value
        learnings == IF s.raised \/ p.raised THEN <<>> ELSE p.learnings
    IN  IF urls = <<>> /\ learnings = <<>> THEN {}
        ELSE {[by |-> b, urls |-> urls, learnings |-> learnings]}

\* ThreadPoolExecutor: an idle worker takes the oldest queued work item and
\* runs lines 195-210 of it, up to the first access to the shared progress.
Evaluate(b) ==
    /\ branches[b].pc = "queued"
    /\ \A c \in BranchesOf(Parent(b)) : Index(c) < Index(b) => branches[c].pc # "queued"
    /\ WorkerFree(Parent(b))
    /\ evaluations' = evaluations + 1
    /\ IF ~HasKey(branches[b].serp_query, "query")
       THEN branches' = Handle(b) /\ failed' = TRUE /\ found' = found
       ELSE \E sresp \in SearchAnswers(branches[b].serp_query.query),
               presp \in ProcAnswers(branches[b].serp_query.query) :
              LET f == frames[Parent(b)]
                  s == search_web(sresp, SearchLimit)
                  p == process_serp_result(presp, NumLearnings,
                                           NumFollowUps(f.breadth))
                  keyError == /\ NewDepth(f.depth) > 0
                              /\ ~HasKey(branches[b].serp_query, "researchGoal")
              IN  /\ found' = found \cup Findings(b, s, p)
                  /\ IF s.raised \/ p.raised \/ keyError
                     THEN /\ branches' =
                               [Handle(b) EXCEPT
                                   ![b].sw_calls = <<branches[b].serp_query.query>>]
                          /\ failed' = TRUE
                     ELSE /\ branches' =
                               [branches EXCEPT
                                   ![b].pc = "read",
                                   ![b].sw_calls = <<branches[b].serp_query.query>>,
                                   ![b].new_urls = s.value,
                                   ![b].rp_calls = ProcessorCalls(s.value),
                                   ![b].num_follow_ups = NumFollowUps(f.breadth),
                                   ![b].follow_ups = p.followUpQuestions,
                                   ![b].new_learnings = p.learnings]
                          /\ UNCHANGED failed
    /\ UNCHANGED <<frames, setting, lastCall>>

\* Lines 216 and 228: the argument progress["completedQueries"] + 1. The
\* follow-up questions were last used on line 210.
ReadCompleted(b) ==
    /\ branches[b].pc = "read"
    /\ branches' = [branches EXCEPT
          ![b].pc = "update",
          ![b].follow_ups = <<>>,
          ![b].completed = frames[Parent(b)].progress.completedQueries + 1]
    /\ UNCHANGED <<frames, setting, lastCall, evaluations, found, failed>>

\* Variant of ProgressUpdate: a leaf reports new_depth as currentDepth, as a
\* branch that recurses does, instead of 0.
ProgressUpdateNewDepth(b, progress) ==
    [progress EXCEPT
        !.currentDepth = NewDepth(frames[Parent(b)].depth),
        !.currentBreadth = IF NewDepth(frames[Parent(b)].depth) > 0
                           THEN NewBreadth(frames[Parent(b)].breadth) ELSE @,
        !.completedQueries = branches[b].completed,
        !.currentQuery = branches[b].serp_query.query]

\* The update dict of lines 212-219 (a branch that recurses) or 225-231 (a leaf).
ProgressUpdate(b, progress) ==
    LET f == frames[Parent(b)]
    IN  IF NewDepth(f.depth) > 0
        THEN [progress EXCEPT
                !.currentDepth = NewDepth(f.depth),
                !.currentBreadth = NewBreadth(f.breadth),
                !.completedQueries = branches[b].completed,
                !.currentQuery = branches[b].serp_query.query]
        ELSE [progress EXCEPT
                !.currentDepth = 0,
                !.completedQueries = branches[b].completed,
                !.currentQuery = branches[b].serp_query.query]

\* Line 181: progress.update(update).
Update(b) ==
    /\ branches[b].pc = "update"
    /\ frames' = [frames EXCEPT
          ![Parent(b)].progress = ProgressUpdate(b, @)]
    /\ branches' = [branches EXCEPT ![b].pc = "callback", ![b].reports = @ + 1]
    /\ UNCHANGED <<setting, lastCall, evaluations, found, failed>>

\* Variant of Reported: a report that does not reach the callback.
ReportedNothing(b, out) == lastCall

\* Lines 182-183: the callback, if there is one, is handed the progress
\* record of the invocation as it is at that moment.
Reported(b, out) ==
    IF out = "skip" THEN lastCall
    ELSE Call(Parent(b), frames[Parent(b)].progress)

\* Lines 182-183, then the recursive call of lines 221-223 or the return of 232.
Callback(b) ==
    /\ branches[b].pc = "callback"
    /\ \E out \in CallbackAnswers :
         LET f == frames[Parent(b)]
         IN  /\ lastCall' = Reported(b, out)
             /\ failed' = (failed \/ out = "raise")
             /\ IF out = "raise"
                THEN /\ branches' = Handle(b)
                     /\ UNCHANGED frames
                ELSE IF NewDepth(f.depth) > 0
                THEN /\ branches' = [branches EXCEPT ![b].pc = "recurse"]
                     /\ frames' = frames @@
                           (b :> NewFrame(NewBreadth(f.breadth), NewDepth(f.depth),
                                          AllLearnings(b), AllUrls(b)))
                ELSE /\ branches' =
                           Finish(b, [learnings |-> AllLearnings(b),
                                      visitedUrls |-> AllUrls(b)], FALSE)
                     /\ UNCHANGED frames
    /\ UNCHANGED <<setting, evaluations, found>>

\* Line 221: the nested invocation returns, or raises into the handler.
Return(b) ==
    /\ branches[b].pc = "recurse"
    /\ frames[b].pc \in {"returned", "raised"}
    /\ LET after == IF frames[b].pc = "returned"
                    THEN Finish(b, frames[b].result, FALSE)
                    ELSE Handle(b)
       IN  branches' = [x \in {y \in DOMAIN after : Parent(y) # b} |-> after[x]]
    /\ frames' = [x \in DOMAIN frames \ {b} |-> frames[x]]
    /\ UNCHANGED <<setting, lastCall, evaluations, found, failed>>

----------------------------------------------------------------------------
(* deep_research: collecting the pool's results *)

BranchList(f) == [i \in 1..Len(frames[f].serp_queries) |-> branches[Append(f, i)]]

\* Variant of MergedLists: list(sum(..., [])), without the set.
MergedListsKeepAll(xs) == {xs}

\* Lines 241-242: list(set(sum(..., []))).
MergedLists(xs) == ListOfSet(xs)

\* Variant of Drained: the results are collected once one future has one.
DrainedAny(f) ==
    BranchesOf(f) = {} \/ \E b \in BranchesOf(f) : branches[b].pc = "done"

\* Variant of Drained: the pool is taken to be drained as soon as the
\* progress record counts as many completed queries as there are queries.
DrainedByCount(f) ==
    frames[f].progress.completedQueries >= frames[f].progress.totalQueries

\* Line 239: list(executor.map(...)) has read the result of every future.
Drained(f) == \A b \in BranchesOf(f) : branches[b].pc = "done"

\* Lines 239-244: every future has a result.
Merge(f) ==
    /\ frames[f].pc = "pool"
    /\ Drained(f)
    /\ LET rs == BranchList(f)
       IN  \E ls \in MergedLists(SumLists([i \in DOMAIN rs |-> rs[i].result.learnings])),
              us \in MergedLists(SumLists([i \in DOMAIN rs |-> rs[i].result.visitedUrls])) :
             frames' = [frames EXCEPT
                 ![f].pc = "returned",
                 ![f].result = [learnings |-> ls, visitedUrls |-> us]]
    /\ UNCHANGED <<branches, setting, lastCall, evaluations, found, failed>>

\* Line 239: the result iterator of executor.map reaches a future that holds
\* an exception, and cancels the futures not yet started.
Reraise(f) ==
    /\ frames[f].pc = "pool"
    /\ \E b \in BranchesOf(f) :
         /\ branches[b].pc = "escaped"
         /\ \A c \in BranchesOf(f) : Index(c) < Index(b) => branches[c].pc = "done"
    /\ frames' = [frames EXCEPT ![f].pc = "shutdown"]
    /\ branches' = [b \in DOMAIN branches |->
                       IF Parent(b) = f /\ branches[b].pc = "queued"
                       THEN [branches[b] EXCEPT !.pc = "cancelled"]
                       ELSE branches[b]]
    /\ UNCHANGED <<setting, lastCall, evaluations, found, failed>>

\* Variant of Quiesced: shutdown(wait=False).
QuiescedNoWait(f) == TRUE

\* Line 238: the workers of the pool have all ended their work item.
Quiesced(f) == RunningOf(f) = {}

\* Line 238: leaving the with block waits for the running workers.
Shutdown(f) ==
    /\ frames[f].pc = "shutdown"
    /\ Quiesced(f)
    /\ frames' = [frames EXCEPT ![f].pc = "raised"]
    /\ UNCHANGED <<branches, setting, lastCall, evaluations, found, failed>>

----------------------------------------------------------------------------
(* The specification *)

\* The most query evaluations a research of this breadth and depth makes.
RECURSIVE Nodes(_, _)
Nodes(breadth, depth) ==
    IF depth <= 1 THEN breadth
    ELSE breadth * (1 + Nodes(Max(1, breadth \div 2), depth - 1))

\* The accumulated findings the root is called with.
RootInputs ==
    {[learnings |-> <<>>, visited_urls |-> <<>>],
     [learnings |-> <<"L1", "L1">>, visited_urls |-> <<"u1", "u1">>]}

\* The size of a research: its query evaluations, the findings it starts
\* with, and its callback, which counts twice (a record is handed over and
\* the callback returns or raises, at every report).
Size(breadth, depth, in, callback) ==
    Nodes(breadth, depth) + Len(in.learnings) + (IF callback THEN 2 ELSE 0)

Init ==
    /\ on_progress \in BOOLEAN
    /\ \E breadth \in 1..MaxBreadth, depth \in 0..MaxDepth, in \in RootInputs :
         /\ Size(breadth, depth, in, on_progress) <= MaxSize
         /\ frames = (<<>> :> NewFrame(breadth, depth, in.learnings, in.visited_urls))
    /\ branches = [b \in {} |-> NewBranch(MkQuery(1, "ok"))]
    /\ lastCall = NoCall
    /\ evaluations = 0
    /\ found = {}
    /\ failed = FALSE
    /\ oracle = Free
    /\ unit = NoUnit

\* Collaborators that answer the same call the same way every time: the Query
\* Generator by the depth it is asked at, the search and the Result Processor
\* by the query.
DetGen ==
    {[kind |-> "raise", queries |-> <<>>],
     [kind |-> "notjson", queries |-> <<>>],
     [kind |-> "json", queries |-> <<MkQuery(1, "ok"), MkQuery(2, "ok")>>],
     [kind |-> "json", queries |-> <<MkQuery(1, "noGoal"), MkQuery(2, "ok")>>],
     [kind |-> "json",
      queries |-> <<MkQuery(1, "ok"), MkQuery(2, "noQuery"), MkQuery(3, "ok")>>]}

DetEval(query) ==
    {[search |-> [kind |-> "ok", urls |-> <<UrlOf(query)>>],
      proc |-> [kind |-> "json", learnings |-> <<"L1">>,
                followUpQuestions |-> LLMFollowUps]],
     [search |-> [kind |-> "request_exception", urls |-> <<>>],
      proc |-> [kind |-> "json", learnings |-> <<"L1">>,
                followUpQuestions |-> <<>>]],
     [search |-> [kind |-> "error", urls |-> <<>>],
      proc |-> [kind |-> "json", learnings |-> <<"L1">>,
                followUpQuestions |-> <<>>]],
     [search |-> [kind |-> "ok", urls |-> <<UrlOf(query)>>],
      proc |-> [kind |-> "raise", learnings |-> <<>>, followUpQuestions |-> <<>>]]}

\* The depths at which a research of this depth calls the Query Generator,
\* and the queries a research of this breadth can search.
Levels(depth) == IF depth <= 1 THEN {depth} ELSE 1..depth
Searched(breadth) == {QueryNames[i] : i \in 1..Min(breadth, MaxLLMQueries)}

Oracles(breadth, depth, callback) ==
    {[fixed |-> TRUE, gen |-> g,
      search |-> [q \in DOMAIN e |-> e[q].search],
      proc |-> [q \in DOMAIN e |-> e[q].proc],
      callback |-> c] :
        g \in [Levels(depth) -> DetGen],
        e \in {x \in [Searched(breadth) -> UNION {DetEval(q) : q \in Searched(breadth)}] :
                  \A q \in Searched(breadth) : x[q] \in DetEval(q)},
        c \in IF callback THEN {"ok", "raise"} ELSE {"skip"}}

\* Collaborators that never fail: the Query Generator answers two queries,
\* every search finds a page, the Result Processor answers a learning and
\* follow-up questions, and the callback returns.
Plain(breadth, depth, callback) ==
    [fixed |-> TRUE,
     gen |-> [d \in Levels(depth) |->
                 [kind |-> "json", queries |-> <<MkQuery(1, "ok"), MkQuery(2, "ok")>>]],
     search |-> [q \in Searched(breadth) |-> [kind |-> "ok", urls |-> <<UrlOf(q)>>]],
     proc |-> [q \in Searched(breadth) |->
                 [kind |-> "json", learnings |-> <<"L1">>,
                  followUpQuestions |-> LLMFollowUps]],
     callback |-> IF callback THEN "ok" ELSE "skip"]

\* A research whose collaborators are fixed before it starts: a small one
\* with any of the fixed collaborators, or a wide one of depth 2, whose nested
\* invocations have a breadth of 2 or more, with collaborators that never fail.
DetInit ==
    /\ on_progress \in BOOLEAN
    /\ \/ \E breadth \in 1..MaxBreadth, depth \in 0..MaxDepth, in \in RootInputs :
            /\ Size(breadth, depth, in, on_progress) <= MaxSize + 2
            /\ frames = (<<>> :> NewFrame(breadth, depth, in.learnings, in.visited_urls))
            /\ oracle \in Oracles(breadth, depth, on_progress)
       \/ /\ frames = (<<>> :> NewFrame(WideBreadth, 2, <<>>, <<>>))
          /\ oracle = Plain(WideBreadth, 2, on_progress)
    /\ branches = [b \in {} |-> NewBranch(MkQuery(1, "ok"))]
    /\ lastCall = NoCall
    /\ evaluations = 0
    /\ found = {}
    /\ failed = FALSE
    /\ unit = NoUnit

Next ==
    \/ \E f \in DOMAIN frames : Generate(f)
    \/ \E b \in DOMAIN branches : Evaluate(b)
    \/ \E b \in DOMAIN branches : ReadCompleted(b)
    \/ \E b \in DOMAIN branches : Update(b)
    \/ \E b \in DOMAIN branches : Callback(b)
    \/ \E b \in DOMAIN branches : Return(b)
    \/ \E f \in DOMAIN frames : Merge(f)
    \/ \E f \in DOMAIN frames : Reraise(f)
    \/ \E f \in DOMAIN frames : Shutdown(f)

Spec == Init /\ [][Next]_vars

\* The scheduler runs every thread that can take a step, and every
\* collaborator call ends.
FairSpec == Spec /\ WF_vars(Next)

\* The same program with collaborators that are fixed in advance.
DetSpec == DetInit /\ [][Next]_vars

----------------------------------------------------------------------------
(* trim_prompt, write_final_report and research, each called on its own.   *)
(* A text is the sequence of its characters; a URL, a learning or a line   *)
(* of a report that is copied whole stands as one element.                 *)

\* Lines 31-33.
trim_prompt(text, max_chars) ==
    Take(text, max_chars) \o (IF Len(text) > max_chars THEN <<".", ".", ".">> ELSE <<>>)

\* sep.join(parts)
RECURSIVE Join(_, _)
Join(sep, parts) ==
    IF parts = <<>> THEN <<>>
    ELSE IF Len(parts) = 1 THEN parts[1]
    ELSE parts[1] \o sep \o Join(sep, Tail(parts))

\* Variant of Sources: every bullet is ended by a newline.
SourcesNewlineEach(visited_urls) ==
    <<"\n", "\n", "## Sources", "\n", "\n">>
        \o SumLists([i \in DOMAIN visited_urls |-> <<"- ", visited_urls[i], "\n">>])

\* Line 155.
Sources(visited_urls) ==
    <<"\n", "\n", "## Sources", "\n", "\n">>
        \o Join(<<"\n">>, [i \in DOMAIN visited_urls |-> <<"- ", visited_urls[i]>>])

\* Line 159.
ErrorReport ==
    <<"# Error", "\n", "Failed to generate report due to JSON parsing error.">>

\* What the LLM may answer to the report prompt: the call raises; text that
\* is not JSON; JSON that is no object; an object without 'reportMarkdown';
\* an object whose 'reportMarkdown' is no string; an object with a report.
Reports ==
    {<<>>, <<"# Report">>,
     <<"# Report", "\n", "## Sources", "\n", "- ", "http://z">>}
ReportResponses ==
    {[kind |-> k, report |-> <<>>] :
        k \in {"raise", "notjson", "notobject", "nokey", "notstring"}}
    \cup {[kind |-> "json", report |-> r] : r \in Reports}

\* Lines 127-159. The learnings reach only the prompt.
write_final_report(resp, learnings, visited_urls) ==
    CASE resp.kind = "notjson" -> [raised |-> FALSE, value |-> ErrorReport]
      [] resp.kind = "json" ->
            [raised |-> FALSE, value |-> resp.report \o Sources(visited_urls)]
      [] OTHER -> [raised |-> TRUE, value |-> <<>>]

\* Lines 261-264: what deep_research handed back, then the report.
research(outcome, resp) ==
    IF outcome.raised THEN [raised |-> TRUE, value |-> <<>>]
    ELSE write_final_report(resp, outcome.learnings, outcome.visitedUrls)

\* The sequences of at most n elements of S, and those without a repeat.
RECURSIVE SeqsUpTo(_, _)
SeqsUpTo(S, n) ==
    IF n = 0 THEN {<<>>}
    ELSE SeqsUpTo(S, n - 1)
         \cup {Append(x, e) : x \in {y \in SeqsUpTo(S, n - 1) : Len(y) = n - 1}, e \in S}
Lists(S) == {x \in SeqsUpTo(S, Cardinality(S)) : NoDuplicates(x)}

\* The ways deep_research ends: it raises, or returns two lists, each
\* without a repeat (C5).
Outcomes ==
    {[raised |-> TRUE, learnings |-> <<>>, visitedUrls |-> <<>>]}
    \cup {[raised |-> FALSE, learnings |-> ls, visitedUrls |-> us] :
            ls \in Lists({"L1", "L2"}), us \in Lists({"http://x", "http://y"})}

Units ==
    {[fn |-> "trim_prompt", pc |-> "called", text |-> t, max_chars |-> m,
      raised |-> FALSE, value |-> <<>>] :
        t \in SeqsUpTo({"a", "b"}, MaxText), m \in 0..MaxChars}
    \cup {[fn |-> "write_final_report", pc |-> "called", response |-> r,
            learnings |-> ls, visited_urls |-> us, raised |-> FALSE, value |-> <<>>] :
            r \in ReportResponses, ls \in {<<>>, <<"L1", "L2">>},
            us \in SeqsUpTo({"http://x", "http://y"}, MaxUrls)}
    \cup {[fn |-> "research", pc |-> "called", response |-> r, outcome |-> o,
            raised |-> FALSE, value |-> <<>>] :
            r \in ReportResponses, o \in Outcomes}

UnitInit ==
    /\ unit \in Units
    /\ frames = [f \in {} |-> NewFrame(1, 0, <<>>, <<>>)]
    /\ branches = [b \in {} |-> NewBranch(MkQuery(1, "ok"))]
    /\ on_progress = FALSE
    /\ lastCall = NoCall
    /\ evaluations = 0
    /\ found = {}
    /\ failed = FALSE
    /\ oracle = Free

Ends(r) ==
    /\ unit' = [unit EXCEPT !.pc = "ended", !.raised = r.raised, !.value = r.value]
    /\ UNCHANGED <<frames, branches, on_progress, lastCall, evaluations, found, failed, oracle>>

TrimPrompt ==
    /\ unit.fn = "trim_prompt" /\ unit.pc = "called"
    /\ Ends([raised |-> FALSE, value |-> trim_prompt(unit.text, unit.max_chars)])

WriteFinalReport ==
    /\ unit.fn = "write_final_report" /\ unit.pc = "called"
    /\ Ends(write_final_report(unit.response, unit.learnings, unit.visited_urls))

Research ==
    /\ unit.fn = "research" /\ unit.pc = "called"
    /\ Ends(research(unit.outcome, unit.response))

UnitNext == TrimPrompt \/ WriteFinalReport \/ Research

UnitSpec == UnitInit /\ [][UnitNext]_vars

----------------------------------------------------------------------------
(* The claims *)

Root == <<>>
Ended(f) == frames[f].pc \in {"returned", "raised"}
ResultOf(f) == frames[f].result
InputOf(f) == [learnings |-> frames[f].learnings, visitedUrls |-> frames[f].visited_urls]

\* C1: an invocation whose Query Generator returned zero queries does no
\* branch work and returns exactly the learnings and URLs it was given.
C1_ZeroQueriesReturnInputs ==
    \A f \in DOMAIN frames :
        (frames[f].pc = "returned" /\ frames[f].serp_queries = <<>>)
            => (BranchesOf(f) = {} /\ ResultOf(f) = InputOf(f))

\* C2: when the pipeline of one query raised, that branch contributes the
\* empty result, every sibling runs to completion, and the invocation returns
\* the deduplicated union of the branches' results instead of raising.
C2_PoisonedBranchIsolated ==
    \A f \in DOMAIN frames :
        (frames[f].pc \in {"returned", "shutdown", "raised"}
         /\ \E b \in BranchesOf(f) : branches[b].raisedIn)
            => /\ frames[f].pc = "returned"
               /\ \A b \in BranchesOf(f) :
                    /\ branches[b].pc = "done"
                    /\ branches[b].raisedIn => branches[b].result = EmptyResult
               /\ LET rs == BranchList(f)
                  IN  /\ ResultOf(f).learnings \in
                           ListOfSet(SumLists([i \in DOMAIN rs |-> rs[i].result.learnings]))
                      /\ ResultOf(f).visitedUrls \in
                           ListOfSet(SumLists([i \in DOMAIN rs |-> rs[i].result.visitedUrls]))

\* C3: no exception escapes deep_research: the root invocation never ends by
\* raising, whatever its collaborators do.
C3_NoExceptionEscapes == frames[Root].pc # "raised"

\* C4: the result of an invocation holds every learning the Result Processor
\* returned, and every URL the search returned, for each of its queries whose
\* own pipeline did not raise, whatever the descendant invocations returned.
C4_ResultHoldsOwnFindings ==
    \A f \in DOMAIN frames :
        frames[f].pc = "returned" =>
            \A b \in BranchesOf(f) :
                ~branches[b].raisedIn =>
                    /\ Range(branches[b].new_learnings) \subseteq Range(ResultOf(f).learnings)
                    /\ Range(branches[b].new_urls) \subseteq Range(ResultOf(f).visitedUrls)

\* C5: the learnings and the visitedUrls returned by every invocation, root
\* or nested, hold no element twice.
C5_NoDuplicates ==
    \A f \in DOMAIN frames :
        frames[f].pc = "returned" =>
            /\ NoDuplicates(ResultOf(f).learnings)
            /\ NoDuplicates(ResultOf(f).visitedUrls)

\* An invocation returned a learning that two of its branches both delivered,
\* and that its own input held twice.
C5_Witness ==
    \E f \in DOMAIN frames :
        /\ frames[f].pc = "returned"
        /\ ~NoDuplicates(frames[f].learnings)
        /\ \E b, c \in BranchesOf(f) :
             /\ b # c
             /\ Range(branches[b].result.learnings)
                  \cap Range(branches[c].result.learnings) # {}
             /\ Cardinality(Range(branches[b].result.visitedUrls)
                  \cup Range(branches[c].result.visitedUrls)) = 2

\* Every nested invocation has a smaller depth than the one that started it,
\* and the nesting is at most max(1, depth) levels deep.
C6_Nesting ==
    \A f \in DOMAIN frames :
        /\ Len(f) + 1 <= Max(1, frames[Root].depth)
        /\ f # Root => frames[f].depth < frames[Parent(f)].depth

\* C6: every invocation eventually ends (no infinite recursion, no deadlock
\* between the worker pools of nested invocations), it ends by raising only
\* when an exception was raised, nested invocations have strictly smaller
\* depth, and the nesting never exceeds max(1, depth) levels.
C6_Terminates ==
    /\ []C6_Nesting
    /\ [](frames[Root].pc = "raised" => failed)
    /\ <>Ended(Root)

\* The root of a research of depth 2 has returned after both of its branches
\* ran a nested invocation at the same time.
C6_Witness ==
    /\ frames[Root].pc = "returned"
    /\ frames[Root].depth = 2
    /\ evaluations = 4
    /\ ~failed

\* C7: after a research in which no branch failed, completedQueries in the
\* final progress state is the number of query evaluations of the whole tree.
C7_CompletedCountsEvaluations ==
    (frames[Root].pc = "returned" /\ ~failed)
        => frames[Root].progress.completedQueries = evaluations

\* C8: every progress callback receives the one record of the root, so the
\* totalDepth and totalBreadth it reports are those given to the root.
C8_OneSharedRecord ==
    lastCall # NoCall =>
        /\ lastCall.owner = Root
        /\ lastCall.rec.totalDepth = frames[Root].depth
        /\ lastCall.rec.totalBreadth = frames[Root].breadth

Monotone(old, new) ==
    /\ new.completedQueries >= old.completedQueries
    /\ new.totalQueries >= old.totalQueries
    /\ new.currentDepth <= old.currentDepth
    /\ new.currentBreadth <= old.currentBreadth

\* C9: from one progress callback to the next, completedQueries and
\* totalQueries never decrease and currentDepth and currentBreadth never
\* increase.
C9_ProgressMonotone ==
    [][(lastCall # NoCall /\ lastCall' # lastCall)
          => Monotone(lastCall.rec, lastCall'.rec)]_vars

\* C10: no invocation has more than 2 of its own branches in progress.
C10_AtMostTwoBranches ==
    \A f \in DOMAIN frames : Cardinality(RunningOf(f)) <= 2

\* Two branches of an invocation are in progress while a third waits.
C10_Witness ==
    \E f \in DOMAIN frames :
        /\ Cardinality(RunningOf(f)) = 2
        /\ \E b \in BranchesOf(f) : branches[b].pc = "queued"
----------------------------------------------------------------------------
(* Fixed collaborators: what a research without concurrency would return *)

Raised == [raised |-> TRUE, learnings |-> {}, visitedUrls |-> {}]
Returned(ls, us) == [raised |-> FALSE, learnings |-> ls, visitedUrls |-> us]

\* The outcome of deep_research(breadth, depth, learnings, urls) when its
\* queries are evaluated one after the other, each to its end.
RECURSIVE Sequential(_, _, _, _)
Sequential(breadth, depth, learnings, urls) ==
    LET g == generate_serp_queries(oracle.gen[depth], breadth)
        qs == g.value
        One(q) ==
            IF ~HasKey(q, "query") THEN Raised
            ELSE LET s == search_web(oracle.search[q.query], SearchLimit)
                     p == process_serp_result(oracle.proc[q.query], NumLearnings,
                                              Max(1, breadth \div 2))
                 IN  IF s.raised \/ p.raised THEN Returned({}, {})
                     ELSE IF depth - 1 > 0
                     THEN IF ~HasKey(q, "researchGoal") THEN Returned({}, {})
                          ELSE LET n == Sequential(Max(1, breadth \div 2), depth - 1,
                                                   learnings \o p.learnings,
                                                   urls \o s.value)
                               IN  IF n.raised THEN Returned({}, {}) ELSE n
                     ELSE Returned(Range(learnings \o p.learnings),
                                   Range(urls \o s.value))
    IN  IF g.raised THEN Raised
        ELSE IF qs # <<>> /\ ~HasKey(qs[1], "query") THEN Raised
        ELSE IF on_progress /\ oracle.callback = "raise" THEN Raised
        ELSE IF \E i \in DOMAIN qs : One(qs[i]).raised THEN Raised
        ELSE Returned(UNION {One(qs[i]).learnings : i \in DOMAIN qs},
                      UNION {One(qs[i]).visitedUrls : i \in DOMAIN qs})

Outcome(f) ==
    IF frames[f].pc = "raised" THEN Raised
    ELSE Returned(Range(ResultOf(f).learnings), Range(ResultOf(f).visitedUrls))

\* C11: with collaborators fixed in advance, every invocation that ends,
\* at every level and under every interleaving of the workers, ends the way
\* the evaluation of its queries one after the other ends: it raises, or
\* returns the same set of learnings and the same set of URLs.
C11_SameUnderEveryInterleaving ==
    \A f \in DOMAIN frames :
        Ended(f) => Outcome(f) = Sequential(frames[f].breadth, frames[f].depth,
                                            frames[f].learnings, frames[f].visited_urls)

\* The root of a research of breadth 2 and depth 2 has returned findings
\* after its two branches ran at the same time: both reported, and one of
\* the two increments of completedQueries was lost.
C11_Witness ==
    /\ oracle.fixed
    /\ frames[Root].pc = "returned"
    /\ frames[Root].depth = 2
    /\ Len(frames[Root].serp_queries) = 2
    /\ \A b \in BranchesOf(Root) : ~branches[b].raisedIn
    /\ frames[Root].progress.completedQueries = 1
    /\ ResultOf(Root).visitedUrls # <<>>
----------------------------------------------------------------------------
(* The scenario of breadth 2 and depth 2 *)

\* The Query Generator always answers [A, B], every search returns one
\* result, the Result Processor always answers the learning L1, and the
\* callback, if there is one, returns.
Scenario ==
    /\ oracle.fixed
    /\ frames[Root].breadth = 2 /\ frames[Root].depth = 2
    /\ frames[Root].learnings = <<>> /\ frames[Root].visited_urls = <<>>
    /\ \A d \in DOMAIN oracle.gen :
          oracle.gen[d] = [kind |-> "json",
                           queries |-> <<MkQuery(1, "ok"), MkQuery(2, "ok")>>]
    /\ \A q \in DOMAIN oracle.search :
          /\ oracle.search[q] = [kind |-> "ok", urls |-> <<UrlOf(q)>>]
          /\ oracle.proc[q] = [kind |-> "json", learnings |-> <<"L1">>,
                               followUpQuestions |-> LLMFollowUps]
    /\ oracle.callback # "raise"

\* C12: in the scenario the root evaluates 2 queries and each of its 2
\* nested invocations evaluates 1, never more than 4 in all and exactly 4
\* once the root has returned; the root does not raise, and it returns the
\* learnings [L1] and, once each, the URLs the searches of A and B returned.
C12_Scenario ==
    Scenario =>
        /\ evaluations <= 4
        /\ frames[Root].pc # "raised"
        /\ \A f \in DOMAIN frames :
              frames[f].pc # "generate" =>
                  Cardinality(BranchesOf(f)) = (IF f = Root THEN 2 ELSE 1)
        /\ frames[Root].pc = "returned" =>
              /\ evaluations = 4
              /\ ResultOf(Root).learnings = <<"L1">>
              /\ Range(ResultOf(Root).visitedUrls) = {UrlOf("A"), UrlOf("B")}
              /\ Len(ResultOf(Root).visitedUrls) = 2

\* The root of the scenario has returned, with a callback that was called.
C12_Witness ==
    /\ Scenario
    /\ frames[Root].pc = "returned"
    /\ on_progress
    /\ evaluations = 4
----------------------------------------------------------------------------
(* The report *)

\* The lines of a text: what stands between its newlines.
RECURSIVE Lines(_)
Lines(text) ==
    IF \A i \in DOMAIN text : text[i] # "\n" THEN <<text>>
    ELSE LET i == CHOOSE k \in DOMAIN text :
                      text[k] = "\n" /\ \A j \in 1..(k - 1) : text[j] # "\n"
         IN  <<SubSeq(text, 1, i - 1)>> \o Lines(SubSeq(text, i + 1, Len(text)))

Bullets(urls) == [i \in DOMAIN urls |-> <<"- ", urls[i]>>]

\* C13: when the LLM answers an object with a report, write_final_report
\* returns the report text, then a blank line, the line '## Sources', a
\* blank line and one line '- <url>' for each element of visited_urls, in
\* their order, and nothing after the last of them.
C13_SourcesSection ==
    (unit.fn = "write_final_report" /\ unit.pc = "ended"
     /\ unit.response.kind = "json") =>
        LET report == unit.response.report
            rest == SubSeq(unit.value, Len(report) + 1, Len(unit.value))
        IN  /\ ~unit.raised
            /\ SubSeq(unit.value, 1, Len(report)) = report
            /\ Lines(rest) =
                  <<<<>>, <<>>, <<"## Sources">>, <<>>>>
                      \o (IF unit.visited_urls = <<>> THEN <<<<>>>>
                          ELSE Bullets(unit.visited_urls))

\* write_final_report has returned for visited_urls = [http://x, http://y]:
\* the text ends with the lines '- http://x' and '- http://y'.
C13_Witness ==
    /\ unit.fn = "write_final_report" /\ unit.pc = "ended"
    /\ unit.response.kind = "json"
    /\ unit.response.report # <<>>
    /\ unit.visited_urls = <<"http://x", "http://y">>
    /\ LET ls == Lines(unit.value)
       IN  /\ Len(ls) >= 3
           /\ ls[Len(ls) - 2] = <<>>
           /\ ls[Len(ls) - 1] = <<"- ", "http://x">>
           /\ ls[Len(ls)] = <<"- ", "http://y">>

\* A text holds a Sources section: one of its lines is '## Sources'.
HasSources(text) == \E i \in DOMAIN Lines(text) : Lines(text)[i] = <<"## Sources">>

\* C14: write_final_report and research never raise, whatever the LLM
\* answers to the report prompt and however the research ended, and the
\* text they return holds a Sources section.
C14_NeverCrashes ==
    (unit.fn \in {"write_final_report", "research"} /\ unit.pc = "ended") =>
        /\ ~unit.raised
        /\ HasSources(unit.value)

\* C15: the text trim_prompt(text, m) returns has at most m characters.
C15_HardCeiling ==
    (unit.fn = "trim_prompt" /\ unit.pc = "ended") => Len(unit.value) <= unit.max_chars
----------------------------------------------------------------------------
(* Branches *)

Evaluated(b) == branches[b].pc \notin {"queued", "cancelled"}

C17_AllBranchesFail ==
    \A f \in DOMAIN frames :
        (/\ frames[f].pc \in {"returned", "shutdown", "raised"}
         /\ BranchesOf(f) # {}
         /\ \A b \in BranchesOf(f) : branches[b].raisedIn)
            => (frames[f].pc = "returned" /\ ResultOf(f) = EmptyResult)

\* Every nested invocation has half the breadth of the invocation that
\* started it, rounded down and at least 1, and its depth less 1, which is at
\* least 1; a branch is in a nested invocation only if depth - 1 > 0.
C18_Schedule ==
    /\ \A f \in DOMAIN frames \ {Root} :
          LET b == frames[Parent(f)].breadth
              d == frames[Parent(f)].depth
          IN  /\ frames[f].breadth = (IF b >= 2 THEN b \div 2 ELSE 1)
              /\ frames[f].breadth >= 1 /\ frames[f].breadth <= b
              /\ frames[f].depth = d - 1
              /\ frames[f].depth >= 1 /\ frames[f].depth < d
    /\ \A b \in DOMAIN branches :
          /\ branches[b].pc = "recurse" <=> b \in DOMAIN frames
          /\ branches[b].pc = "recurse" => frames[Parent(b)].depth - 1 > 0

\* A branch that leaves its progress report without an exception starts a
\* nested invocation if depth - 1 > 0, and returns its own lists if not.
C18_Step ==
    \A b \in DOMAIN branches :
        (/\ branches[b].pc = "callback"
         /\ branches'[b].pc # "callback"
         /\ ~branches'[b].raisedIn) =>
            IF frames[Parent(b)].depth - 1 > 0
            THEN branches'[b].pc = "recurse" /\ b \in DOMAIN frames'
            ELSE branches'[b].pc = "done" /\ b \notin DOMAIN frames'

\* C18: a branch recurses if and only if depth - 1 > 0, and every nested
\* invocation is called with breadth max(1, breadth // 2) and depth - 1, so
\* that down every path breadth never grows and stays at least 1, and depth
\* strictly decreases and is at least 1 in every nested invocation.
C18_Halving == []C18_Schedule /\ [][C18_Step]_vars

\* A nested invocation of breadth 1 and depth 1, started by an invocation
\* of breadth 1 (the floor) and depth 2, has returned.
C18_Witness ==
    \E f \in DOMAIN frames \ {Root} :
        /\ frames[Parent(f)].breadth = 1 /\ frames[Parent(f)].depth = 2
        /\ frames[f].breadth = 1 /\ frames[f].depth = 1
        /\ frames[f].pc = "returned"
        /\ ResultOf(f).learnings # <<>>

----------------------------------------------------------------------------
(* The progress report of a branch that recurses *)

\* The nested invocations that start in this step.
Starting(b) == b \notin DOMAIN frames /\ b \in DOMAIN frames'

\* In the step in which a nested invocation starts, the branch that starts
\* it has made its progress update, the nested Query Generator has not been
\* called, and the callback, if there is one, has just been handed the record
\* of the starting invocation, not of the nested one.
ReportedFirst(b) ==
    /\ branches[b].pc = "callback"
    /\ frames'[b].pc = "generate"
    /\ on_progress => lastCall' = Call(Parent(b), frames[Parent(b)].progress)

\* C19, as the code has it: a branch that recurses calls the callback before
\* the nested invocation starts, with a record in which currentDepth is
\* depth - 1, currentBreadth is max(1, breadth // 2), completedQueries is at
\* least 1 and currentQuery is a query of the same invocation: this
\* branch's, or a sibling's that updated the shared record in between.
C19_ReportBeforeRecursing ==
    [][\A b \in DOMAIN branches :
          Starting(b) =>
              /\ ReportedFirst(b)
              /\ on_progress =>
                    LET f == frames[Parent(b)]
                    IN  /\ lastCall'.rec.currentDepth = f.depth - 1
                        /\ lastCall'.rec.currentBreadth =
                              (IF f.breadth >= 2 THEN f.breadth \div 2 ELSE 1)
                        /\ lastCall'.rec.completedQueries >= 1
                        /\ \E c \in BranchesOf(Parent(b)) :
                              /\ branches[c].pc \in {"callback", "recurse", "done"}
                              /\ lastCall'.rec.currentQuery = branches[c].serp_query.query]_vars

\* C19, as stated: the record of that callback reports this branch, with
\* this branch's query and this branch's increment of completedQueries.
C19_ReportsThisBranch ==
    [][\A b \in DOMAIN branches :
          Starting(b) =>
              /\ ReportedFirst(b)
              /\ on_progress =>
                    /\ lastCall'.rec.currentDepth = frames[Parent(b)].depth - 1
                    /\ lastCall'.rec.completedQueries = branches[b].completed
                    /\ lastCall'.rec.currentQuery = branches[b].serp_query.query]_vars

\* A nested invocation has just started, its Query Generator not yet
\* called, and the last record handed to the callback is the starting
\* invocation's, showing a sibling's query.
C19_Witness ==
    \E b \in DOMAIN frames \ {Root} :
        /\ frames[b].pc = "generate"
        /\ lastCall = Call(Parent(b), frames[Parent(b)].progress)
        /\ lastCall.rec.currentDepth = frames[b].depth
        /\ lastCall.rec.currentQuery # branches[b].serp_query.query

----------------------------------------------------------------------------
(* The end of an invocation *)

\* The branches of f and of the invocations nested in f, at any depth.
Under(f, b) == Len(b) > Len(f) /\ SubSeq(b, 1, Len(f)) = f
AtRest(b) == branches[b].pc \in {"done", "escaped", "cancelled"}

\* An invocation that has ended, by returning or by raising, has no branch
\* at work and no nested invocation left; one that has returned has a result
\* from every branch.
C20_Drained ==
    \A f \in DOMAIN frames :
        Ended(f) =>
            /\ \A b \in DOMAIN branches : Under(f, b) => AtRest(b)
            /\ \A g \in DOMAIN frames : ~Under(f, g)
            /\ frames[f].pc = "returned" =>
                  /\ Cardinality(BranchesOf(f)) = Len(frames[f].serp_queries)
                  /\ \A b \in BranchesOf(f) : branches[b].pc = "done"

\* After an invocation has ended nothing happens on its behalf: its result
\* and progress record stay as they are, none of its branches moves, and no
\* callback is made with its record.
C20_Quiet ==
    \A f \in DOMAIN frames :
        (Ended(f) /\ f \in DOMAIN frames') =>
            /\ frames'[f] = frames[f]
            /\ \A b \in DOMAIN branches :
                  Under(f, b) => (b \in DOMAIN branches' /\ branches'[b] = branches[b])
            /\ lastCall' # lastCall => lastCall'.owner # f

\* C20: an invocation merges and returns only after every one of its
\* branches, and every invocation nested in them, has finished, and no
\* collaborator call or callback of an invocation comes after its end.
C20_MergeAfterPoolDrains == []C20_Drained /\ [][C20_Quiet]_vars

\* The root of a research of depth 2 has returned findings, both of its
\* branches having run a nested invocation to its end.
C20_Witness ==
    /\ frames[Root].pc = "returned"
    /\ frames[Root].depth = 2
    /\ DOMAIN frames = {Root}
    /\ Cardinality(BranchesOf(Root)) = 2
    /\ \A b \in BranchesOf(Root) : branches[b].pc = "done" /\ ~branches[b].raisedIn
    /\ ResultOf(Root).learnings # <<>>
----------------------------------------------------------------------------
(* The lists an invocation is given *)

\* A branch that has returned as a leaf, or is in its nested invocation, has
\* accumulated the lists its invocation was given followed by what its own
\* search and its own Result Processor call returned, and nothing else.
C21_OwnFindingsOnly ==
    \A b \in DOMAIN branches :
        LET ls == frames[Parent(b)].learnings \o branches[b].new_learnings
            us == frames[Parent(b)].visited_urls \o branches[b].new_urls
        IN  /\ branches[b].pc = "recurse" =>
                  frames[b].learnings = ls /\ frames[b].visited_urls = us
            /\ (/\ branches[b].pc = "done"
                /\ ~branches[b].raisedIn
                /\ frames[Parent(b)].depth - 1 <= 0) =>
                  branches[b].result = [learnings |-> ls, visitedUrls |-> us]

\* No step changes the lists an invocation was given.
C21_InputsKept ==
    \A f \in DOMAIN frames :
        f \in DOMAIN frames' =>
            /\ frames'[f].learnings = frames[f].learnings
            /\ frames'[f].visited_urls = frames[f].visited_urls

\* C21: the learnings and visited_urls an invocation was given are the same
\* at every moment of the call and at its end, and what a branch accumulates
\* is these lists followed by its own findings, never a sibling's.
C21_PassedByValue == []C21_OwnFindingsOnly /\ [][C21_InputsKept]_vars

\* Two branches of the root, called with the default empty lists, are in
\* their nested invocations at the same time with different findings, and
\* each nested invocation was given only the findings of its own branch.
C21_Witness ==
    /\ frames[Root].learnings = <<>> /\ frames[Root].visited_urls = <<>>
    /\ \E b, c \in BranchesOf(Root) :
          /\ branches[b].pc = "recurse" /\ branches[c].pc = "recurse"
          /\ branches[b].new_learnings # <<>> /\ branches[c].new_learnings # <<>>
          /\ Range(branches[b].new_learnings) \cap Range(branches[c].new_learnings) = {}
          /\ frames[b].learnings = branches[b].new_learnings
          /\ frames[c].learnings = branches[c].new_learnings
----------------------------------------------------------------------------
(* Fan-out *)

\* C22: an invocation of breadth b holds at most b queries, the first ones of
\* the Query Generator's answer, and dispatches one branch for each of them
\* and no other; every branch asks the Result Processor for at most
\* max(1, b // 2) follow-up questions and holds at most that many.
C22_FanOutBounded ==
    /\ \A f \in DOMAIN frames :
          /\ Len(frames[f].serp_queries) <= frames[f].breadth
          /\ Cardinality(BranchesOf(f)) <= frames[f].breadth
          /\ \A i \in DOMAIN frames[f].serp_queries :
                frames[f].serp_queries[i].query \in {QueryNames[i], Absent}
          /\ \A b \in BranchesOf(f) :
                /\ Index(b) \in DOMAIN frames[f].serp_queries
                /\ branches[b].serp_query = frames[f].serp_queries[Index(b)]
    /\ \A b \in DOMAIN branches :
          LET breadth == frames[Parent(b)].breadth
              most == IF breadth >= 2 THEN breadth \div 2 ELSE 1
          IN  /\ branches[b].num_follow_ups <= most
              /\ Len(branches[b].follow_ups) <= most
              /\ Len(branches[b].follow_ups) <= branches[b].num_follow_ups

\* An invocation of breadth 2 has dispatched 2 branches, and one of them,
\* having asked for 1 follow-up question, holds the first one of the several
\* the LLM answered.
C22_Witness ==
    \E f \in DOMAIN frames :
        /\ frames[f].breadth = 2
        /\ Cardinality(BranchesOf(f)) = 2
        /\ \E b \in BranchesOf(f) :
              /\ branches[b].num_follow_ups = 1
              /\ Len(LLMFollowUps) > 1
              /\ branches[b].follow_ups = <<LLMFollowUps[1]>>
----------------------------------------------------------------------------
(* The size of the call tree *)

\* The answer fixed for every Query Generator call of a research of this
\* breadth and depth holds at least as many queries as the call asks for.
RECURSIVE FullCounts(_, _)
FullCounts(breadth, depth) ==
    /\ oracle.gen[depth].kind = "json"
    /\ Len(oracle.gen[depth].queries) >= breadth
    /\ depth > 1 => FullCounts(IF breadth >= 2 THEN breadth \div 2 ELSE 1, depth - 1)

\* C23: with N(b, d) = b for d <= 1 and b * (1 + N(max(1, b // 2), d - 1))
\* for d > 1 (the operator Nodes), a research of root breadth b and depth d
\* never makes more than N(b, d) query evaluations, and has made exactly
\* N(b, d) when it ends after every Query Generator call returned as many
\* queries as asked for and nothing failed.
C23_NodeCount ==
    LET b == frames[Root].breadth
        d == frames[Root].depth
    IN  /\ evaluations <= Nodes(b, d)
        /\ (Ended(Root) /\ oracle.fixed /\ FullCounts(b, d) /\ ~failed) =>
              evaluations = Nodes(b, d)

\* A research of breadth 2 and depth 2 has ended after 4 = 2 * (1 + 1) query
\* evaluations, every Query Generator call having returned the full count
\* (the 2 asked for at the root, 1 of the LLM's 2 in the nested invocations).
C23_Witness ==
    /\ oracle.fixed
    /\ frames[Root].breadth = 2 /\ frames[Root].depth = 2
    /\ frames[Root].pc = "returned"
    /\ FullCounts(2, 2)
    /\ ~failed
    /\ evaluations = 4
----------------------------------------------------------------------------
(* Concurrency of a recursion level *)

\* The branches in progress in the invocations of remaining depth d.
InProgressAt(d) ==
    {b \in DOMAIN branches : Running(b) /\ frames[Parent(b)].depth = d}

\* C24: at every moment at most 2 branches are in progress at any one
\* recursion level, the invocations of the same remaining depth taken
\* together.
C24_TwoPerLevel ==
    \A d \in 0..frames[Root].depth : Cardinality(InProgressAt(d)) <= 2
----------------------------------------------------------------------------
(* Progress and the result *)

\* What deep_research(breadth, depth, learnings, urls) would end with if it
\* kept no progress record and made no report: the queries are generated,
\* each is searched and processed, each branch recurses or returns its
\* lists, a failed branch counts for nothing, and the results are united.
RECURSIVE WithoutProgress(_, _, _, _)
WithoutProgress(breadth, depth, learnings, urls) ==
    LET g == generate_serp_queries(oracle.gen[depth], breadth)
        Branch(q) ==
            IF ~HasKey(q, "query") THEN Raised
            ELSE LET s == search_web(oracle.search[q.query], SearchLimit)
                     p == process_serp_result(oracle.proc[q.query], NumLearnings,
                                              Max(1, breadth \div 2))
                     ls == learnings \o p.learnings
                     us == urls \o s.value
                 IN  IF s.raised \/ p.raised THEN Returned({}, {})
                     ELSE IF depth - 1 <= 0 THEN Returned(Range(ls), Range(us))
                     ELSE IF ~HasKey(q, "researchGoal") THEN Returned({}, {})
                     ELSE LET n == WithoutProgress(Max(1, breadth \div 2), depth - 1, ls, us)
                          IN  IF n.raised THEN Returned({}, {}) ELSE n
        rs == [i \in DOMAIN g.value |-> Branch(g.value[i])]
    IN  IF g.raised \/ (g.value # <<>> /\ ~HasKey(g.value[1], "query")) THEN Raised
        ELSE IF \E i \in DOMAIN rs : rs[i].raised THEN Raised
        ELSE Returned(UNION {rs[i].learnings : i \in DOMAIN rs},
                      UNION {rs[i].visitedUrls : i \in DOMAIN rs})

\* C25: with collaborators fixed in advance, an invocation that is given no
\* callback, or a callback that returns, ends the way a research that keeps
\* no progress at all ends, whatever its progress record came to hold: the
\* result is the same with and without a callback.
C25_ProgressNotUsed ==
    \A f \in DOMAIN frames :
        (Ended(f) /\ ~(on_progress /\ oracle.callback = "raise")) =>
            Outcome(f) = WithoutProgress(frames[f].breadth, frames[f].depth,
                                         frames[f].learnings, frames[f].visited_urls)

\* A research with a callback has returned findings after two branches of
\* the root reported at the same time, leaving completedQueries at 1 of 2 in
\* the record: a value another interleaving does not leave.
C25_Witness ==
    /\ oracle.fixed
    /\ on_progress
    /\ frames[Root].pc = "returned"
    /\ frames[Root].progress.totalQueries = 2
    /\ frames[Root].progress.completedQueries = 1
    /\ lastCall.owner = Root
    /\ ResultOf(Root).learnings # <<>>
----------------------------------------------------------------------------
(* The count of completed queries *)

\* C26: an invocation that has returned, every one of its branches having
\* completed without an exception, holds a progress record in which
\* completedQueries equals totalQueries, under every interleaving.
C26_NoLostIncrement ==
    \A f \in DOMAIN frames :
        (/\ frames[f].pc = "returned"
         /\ \A b \in BranchesOf(f) : branches[b].pc = "done" /\ ~branches[b].raisedIn) =>
            frames[f].progress.completedQueries = frames[f].progress.totalQueries
----------------------------------------------------------------------------
(* The records the callback is handed *)

\* The counters of a record are within their totals.
InRange(rec) ==
    /\ 0 <= rec.completedQueries /\ rec.completedQueries <= rec.totalQueries
    /\ 0 <= rec.currentDepth /\ rec.currentDepth <= rec.totalDepth
    /\ 1 <= rec.currentBreadth /\ rec.currentBreadth <= rec.totalBreadth

\* Every record handed to the callback is in range, and an invocation has
\* branches only once its Query Generator call and first report are behind it.
C27_Records ==
    /\ lastCall # NoCall => InRange(lastCall.rec)
    /\ \A b \in DOMAIN branches : frames[Parent(b)].pc # "generate"

\* The step in which an invocation passes its first report: the record holds
\* the number of generated queries as totalQueries and the first query, or
\* the empty string, as currentQuery; the callback, if there is one, has just
\* been handed this record; and none of the invocation's branches has started.
C27_FirstReport ==
    \A f \in DOMAIN frames :
        (frames[f].pc = "generate" /\ frames'[f].pc = "pool") =>
            LET rec == frames'[f].progress
                qs == frames'[f].serp_queries
            IN  /\ rec.totalQueries = Len(qs)
                /\ rec.currentQuery = (IF qs = <<>> THEN "" ELSE qs[1].query)
                /\ rec.completedQueries = 0
                /\ on_progress => lastCall' = Call(f, rec)
                /\ \A b \in DOMAIN branches' :
                      Parent(b) = f => branches'[b].pc = "queued"

\* C27: every progress record passed to the callback has 0 <= completedQueries
\* <= totalQueries, 0 <= currentDepth <= totalDepth and 1 <= currentBreadth <=
\* totalBreadth, and the first report of an invocation, with totalQueries the
\* number of generated queries and currentQuery the first query or the empty
\* string, comes before any of its branches starts.
C27_ProgressRecords == []C27_Records /\ [][C27_FirstReport]_vars

\* The callback has been handed the record of an invocation of breadth 2
\* and depth 2 by the second of its branches: completedQueries has reached
\* totalQueries = 2, currentBreadth is down to 1 and currentDepth to 1.
C27_Witness ==
    /\ lastCall # NoCall
    /\ lastCall.rec.totalQueries = 2 /\ lastCall.rec.completedQueries = 2
    /\ lastCall.rec.totalBreadth = 2 /\ lastCall.rec.currentBreadth = 1
    /\ lastCall.rec.totalDepth = 2 /\ lastCall.rec.currentDepth = 1
    /\ lastCall.rec.currentQuery = "B"
----------------------------------------------------------------------------
(* Where the findings come from *)

\* What the Result Processor and the searches returned for the queries
\* evaluated in the call tree of invocation f.
LearningsFoundUnder(f) == UNION {Range(r.learnings) : r \in {x \in found : Under(f, x.by)}}
UrlsFoundUnder(f) == UNION {Range(r.urls) : r \in {x \in found : Under(f, x.by)}}

\* C28: every learning an invocation returns is one of the learnings it was
\* given or one the Result Processor returned for a query evaluated in its
\* call tree, and every URL it returns is one of the visited_urls it was
\* given or the URL of a search result returned for such a query.
C28_NothingFabricated ==
    \A f \in DOMAIN frames :
        frames[f].pc = "returned" =>
            /\ Range(ResultOf(f).learnings)
                  \subseteq Range(frames[f].learnings) \cup LearningsFoundUnder(f)
            /\ Range(ResultOf(f).visitedUrls)
                  \subseteq Range(frames[f].visited_urls) \cup UrlsFoundUnder(f)

\* The root of a research of depth 2, given no findings, has returned a
\* learning and a URL that were found in its call tree, while a search of
\* the tree came back without results.
C28_Witness ==
    /\ frames[Root].pc = "returned"
    /\ frames[Root].depth = 2
    /\ frames[Root].learnings = <<>> /\ frames[Root].visited_urls = <<>>
    /\ ResultOf(Root).learnings # <<>>
    /\ ResultOf(Root).visitedUrls # <<>>
    /\ \E b \in DOMAIN branches :
          ~branches[b].raisedIn /\ branches[b].sw_calls # <<>> /\ branches[b].new_urls = <<>>
----------------------------------------------------------------------------
(* Depth 0 and depth 1 *)

\* One level of research for the Query Generator answer g: the queries are
\* generated, each is searched and processed once, every branch returns its
\* own lists and the results are united. The depth takes no part in it.
OneLevel(g, breadth, learnings, urls) ==
    LET qs == generate_serp_queries(g, breadth)
        Leaf(q) ==
            LET s == search_web(oracle.search[q.query], SearchLimit)
                p == process_serp_result(oracle.proc[q.query], NumLearnings,
                                         Max(1, breadth \div 2))
            IN  IF s.raised \/ p.raised THEN Returned({}, {})
                ELSE Returned(Range(learnings \o p.learnings), Range(urls \o s.value))
    IN  IF qs.raised \/ (\E i \in DOMAIN qs.value : ~HasKey(qs.value[i], "query"))
        THEN Raised
        ELSE IF on_progress /\ oracle.callback = "raise" THEN Raised
        ELSE Returned(UNION {Leaf(qs.value[i]).learnings : i \in DOMAIN qs.value},
                      UNION {Leaf(qs.value[i]).visitedUrls : i \in DOMAIN qs.value})

\* C29: a research of depth 0, like one of depth 1, does one level of work
\* and no more: it never starts a nested invocation, evaluates each generated
\* query with one search and one Result Processor call asking for
\* max(1, breadth // 2) follow-ups, leaves currentDepth at 0 with every
\* branch report, and ends the way the one level ends for the Query
\* Generator's answer, which is the same for depth 0 and depth 1.
C29_DepthZeroIsOneLevel ==
    (oracle.fixed /\ frames[Root].depth \in {0, 1}) =>
        /\ DOMAIN frames = {Root}
        /\ evaluations <= Len(frames[Root].serp_queries)
        /\ \A b \in DOMAIN branches :
              /\ branches[b].pc # "recurse"
              /\ Len(branches[b].sw_calls) <= 1 /\ Len(branches[b].rp_calls) <= 1
              /\ branches[b].reports > 0 =>
                    /\ frames[Root].progress.currentDepth = 0
                    /\ branches[b].sw_calls = <<branches[b].serp_query.query>>
                    /\ Len(branches[b].rp_calls) = 1
                    /\ branches[b].num_follow_ups =
                          (IF frames[Root].breadth >= 2
                           THEN frames[Root].breadth \div 2 ELSE 1)
        /\ Ended(Root) =>
              Outcome(Root) = OneLevel(oracle.gen[frames[Root].depth], frames[Root].breadth,
                                       frames[Root].learnings, frames[Root].visited_urls)
        /\ (frames[Root].pc = "returned" /\ ~failed) =>
              evaluations = Len(frames[Root].serp_queries)

\* A research of depth 0 with a callback has returned findings after
\* evaluating two queries, the last report showing currentDepth = 0.
C29_Witness ==
    /\ oracle.fixed
    /\ frames[Root].depth = 0
    /\ frames[Root].pc = "returned"
    /\ evaluations = 2
    /\ ResultOf(Root).learnings # <<>>
    /\ on_progress
    /\ lastCall.rec.currentDepth = 0 /\ lastCall.rec.completedQueries >= 1
----------------------------------------------------------------------------
(* One evaluation for each query *)

\* C30: no query of an invocation is searched, processed or reported twice,
\* and when the invocation ends every query it generated has been searched
\* exactly once and processed at most once, every branch that did not fail
\* having reported exactly once.
C30_EachQueryOnce ==
    \A f \in DOMAIN frames :
        /\ \A b \in BranchesOf(f) :
              /\ Len(branches[b].sw_calls) <= 1
              /\ Len(branches[b].rp_calls) <= 1
              /\ branches[b].reports <= 1
        /\ Ended(f) =>
              \A i \in DOMAIN frames[f].serp_queries :
                  /\ Append(f, i) \in DOMAIN branches
                  /\ Len(branches[Append(f, i)].sw_calls) = 1
                  /\ ~branches[Append(f, i)].raisedIn =>
                        branches[Append(f, i)].reports = 1

====
